---------------------------- MODULE Spec2Model ----------------------------
(***************************************************************************)
(* A model of fetch-fonts: the /download request handler of webserver.js   *)
(* and the stylesheet parser, font fetcher, stylesheet rewriter, archiver  *)
(* and cleanup of fetch-fonts.js.                                          *)
(*                                                                         *)
(* JavaScript strings are modelled as sequences of one-character strings,  *)
(* so that includes, split, trim and replace are computed as the code      *)
(* computes them and two strings are equal exactly when their sequences    *)
(* are equal.                                                              *)
(***************************************************************************)
EXTENDS Integers, Sequences, FiniteSets

(***************************************************************************)
(* Bounds of the model.                                                    *)
(***************************************************************************)
\* The longest upstream stylesheet, counted in chunks (blocks, comment
\* lines, stray lines) drawn from the chunk library below.
MaxChunks == 2

(***************************************************************************)
(* String literals of the source and of the input library.                 *)
(***************************************************************************)
\* the string @font-face
AT_FONT_FACE ==
    <<"@","f","o","n","t","-","f","a","c","e">>

\* the string font-family:
FONT_FAMILY_MARK ==
    <<"f","o","n","t","-","f","a","m","i","l","y",":">>

\* the string font-style:
FONT_STYLE_MARK ==
    <<"f","o","n","t","-","s","t","y","l","e",":">>

\* the string font-weight:
FONT_WEIGHT_MARK ==
    <<"f","o","n","t","-","w","e","i","g","h","t",":">>

\* the string src:
SRC_MARK ==
    <<"s","r","c",":">>

\* the string url(
URL_OPEN ==
    <<"u","r","l","(">>

\* the string undefined
STR_undefined ==
    <<"u","n","d","e","f","i","n","e","d">>

\* the string tmp
STR_tmp ==
    <<"t","m","p">>

\* the string fonts
STR_fonts ==
    <<"f","o","n","t","s">>

\* the string css
STR_css ==
    <<"c","s","s">>

\* the string fonts.min.css
STR_fonts_min_css ==
    <<"f","o","n","t","s",".","m","i","n",".","c","s","s">>

\* the string .zip
STR_zip ==
    <<".","z","i","p">>

\* the string @font-face {font-family: '
T_rule_family ==
    <<"@","f","o","n","t","-","f","a","c","e"," ","{","f","o","n","t","-","f","a","m","i","l",
      "y",":"," ","'">>

\* the string ';font-style: 
T_rule_style ==
    <<"'",";","f","o","n","t","-","s","t","y","l","e",":"," ">>

\* the string ;font-weight: 
T_rule_weight ==
    <<";","f","o","n","t","-","w","e","i","g","h","t",":"," ">>

\* the string ;src: url('
T_rule_src ==
    <<";","s","r","c",":"," ","u","r","l","(","'">>

\* the string ') format('
T_rule_format ==
    <<"'",")"," ","f","o","r","m","a","t","(","'">>

\* the string ');}\n
T_rule_end ==
    <<"'",")",";","}","\n">>

\* the string ../fonts/
T_local_fonts ==
    <<".",".","/","f","o","n","t","s","/">>

\* the string @font-face {\n
R_open ==
    <<"@","f","o","n","t","-","f","a","c","e"," ","{","\n">>

\* the string /* latin */\n
R_comment ==
    <<"/","*"," ","l","a","t","i","n"," ","*","/","\n">>

\* the string   font-family: '
R_family ==
    <<" "," ","f","o","n","t","-","f","a","m","i","l","y",":"," ","'">>

\* the string ';\n
R_family_end ==
    <<"'",";","\n">>

\* the string   font-style: 
R_style ==
    <<" "," ","f","o","n","t","-","s","t","y","l","e",":"," ">>

\* the string   font-weight: 
R_weight ==
    <<" "," ","f","o","n","t","-","w","e","i","g","h","t",":"," ">>

\* the string ;\n
R_decl_end ==
    <<";","\n">>

\* the string   src: url(
R_src ==
    <<" "," ","s","r","c",":"," ","u","r","l","(">>

\* the string ) format('woff2');\n
R_src_end ==
    <<")"," ","f","o","r","m","a","t","(","'","w","o","f","f","2","'",")",";","\n">>

\* the string   src: local('Inter');\n
R_src_local ==
    <<" "," ","s","r","c",":"," ","l","o","c","a","l","(","'","I","n","t","e","r","'",")",";",
      "\n">>

\* the string   unicode-range: U+0000-00FF;\n
R_range ==
    <<" "," ","u","n","i","c","o","d","e","-","r","a","n","g","e",":"," ","U","+","0","0","0",
      "0","-","0","0","F","F",";","\n">>

\* the string }\n
R_close ==
    <<"}","\n">>

\* the string   font-family: 'Arial';\n
R_stray ==
    <<" "," ","f","o","n","t","-","f","a","m","i","l","y",":"," ","'","A","r","i","a","l","'",
      ";","\n">>

\* the string Inter
V_Inter ==
    <<"I","n","t","e","r">>

\* the string Lato
V_Lato ==
    <<"L","a","t","o">>

\* the string normal
V_normal ==
    <<"n","o","r","m","a","l">>

\* the string italic
V_italic ==
    <<"i","t","a","l","i","c">>

\* the string 400
V_400 ==
    <<"4","0","0">>

\* the string 700
V_700 ==
    <<"7","0","0">>

\* the string https://host/inter.woff2
U_inter ==
    <<"h","t","t","p","s",":","/","/","h","o","s","t","/","i","n","t","e","r",".","w","o","f",
      "f","2">>

\* the string https://host/b.woff2
U_inter_b ==
    <<"h","t","t","p","s",":","/","/","h","o","s","t","/","b",".","w","o","f","f","2">>

\* the string https://host/lato.ttf
U_lato ==
    <<"h","t","t","p","s",":","/","/","h","o","s","t","/","l","a","t","o",".","t","t","f">>

\* the string @font-face{font-family:'Inter';font-style:normal;font-weight:400;src:url(https://host/inter.woff2) format('woff2');}
ONE_LINE_BLOCK ==
    <<"@","f","o","n","t","-","f","a","c","e","{","f","o","n","t","-","f","a","m","i","l","y",
      ":","'","I","n","t","e","r","'",";","f","o","n","t","-","s","t","y","l","e",":","n","o",
      "r","m","a","l",";","f","o","n","t","-","w","e","i","g","h","t",":","4","0","0",";","s",
      "r","c",":","u","r","l","(","h","t","t","p","s",":","/","/","h","o","s","t","/","i","n",
      "t","e","r",".","w","o","f","f","2",")"," ","f","o","r","m","a","t","(","'","w","o","f",
      "f","2","'",")",";","}">>

\* the string Inter-normal-400.woff2
N_Inter_normal_400_woff2 ==
    <<"I","n","t","e","r","-","n","o","r","m","a","l","-","4","0","0",".","w","o","f","f","2">>

\* the string ../fonts/Inter/Inter-normal-400.woff2
P_local_Inter ==
    <<".",".","/","f","o","n","t","s","/","I","n","t","e","r","/","I","n","t","e","r","-","n",
      "o","r","m","a","l","-","4","0","0",".","w","o","f","f","2">>

(***************************************************************************)
(* JavaScript values and string methods used by the source.                *)
(***************************************************************************)
\* The JavaScript value undefined. Its one element is not a character, so it
\* differs from every string.
undefined == <<"<undefined>">>

\* The JavaScript value null, for a variable that holds null or one object:
\* an object o is held as <<o>>.
null == <<>>

\* String.prototype.includes: m occurs in s as a contiguous substring.
Includes(s, m) ==
    \E k \in 1..(Len(s) - Len(m) + 1) : SubSeq(s, k, k + Len(m) - 1) = m

\* The first position at which sep occurs in s, or 0.
IndexOf(s, sep) ==
    LET hits == {k \in 1..(Len(s) - Len(sep) + 1) : SubSeq(s, k, k + Len(sep) - 1) = sep}
    IN  IF hits = {} THEN 0 ELSE CHOOSE k \in hits : \A j \in hits : k <= j

\* String.prototype.split with a non-empty separator: the array of the
\* pieces between the occurrences of sep (one piece when sep is absent).
RECURSIVE Split(_, _)
Split(s, sep) ==
    LET k == IndexOf(s, sep)
    IN  IF k = 0
        THEN <<s>>
        ELSE <<SubSeq(s, 1, k - 1)>> \o Split(SubSeq(s, k + Len(sep), Len(s)), sep)

\* Array indexing a[i] with JavaScript's 0-based index: undefined when out
\* of range.
At(a, i) == IF i + 1 <= Len(a) THEN a[i + 1] ELSE undefined

IsSpace(c) == c \in {" ", "\t", "\n", "\r"}

\* String.prototype.trim.
RECURSIVE Trim(_)
Trim(s) ==
    IF s = <<>> THEN s
    ELSE IF IsSpace(s[1]) THEN Trim(Tail(s))
    ELSE IF IsSpace(s[Len(s)]) THEN Trim(SubSeq(s, 1, Len(s) - 1))
    ELSE s

\* String.prototype.replace(/c/g, ''): every occurrence of the character c
\* removed.
RemoveAll(s, c) == SelectSeq(s, LAMBDA x : x # c)

\* A value interpolated in a template literal: undefined prints as the
\* string undefined.
Interpolate(v) == IF v = undefined THEN STR_undefined ELSE v

\* path.join of a base path and further segments: joined by "/", empty
\* segments dropped by the normalisation.
RECURSIVE PathJoin(_, _)
PathJoin(base, segs) ==
    IF segs = <<>> THEN base
    ELSE IF segs[1] = <<>> THEN PathJoin(base, Tail(segs))
    ELSE PathJoin(base \o <<"/">> \o segs[1], Tail(segs))

(***************************************************************************)
(* The stylesheet parser: the line loop of parseAndDownloadFonts.          *)
(***************************************************************************)
\* The font-face structure a line with @font-face starts.
NewFontFace == [fontFamily |-> <<>>, fontStyle |-> <<>>, fontWeight |-> <<>>, srcUrl |-> <<>>]

\* The loop's state before the first line: no current object, no font faces,
\* no TypeError thrown.
ParseStart == [threw |-> FALSE, currentObject |-> null, fontFaces |-> <<>>]

\* One iteration of the line loop. Assigning a property of currentObject
\* while it is null throws a TypeError, and so does calling split on the
\* undefined that line.split('url(')[1] is when the line holds no url(.
ParseLine(st, line) ==
    LET cur == st.currentObject
        Set(f, v) == [st EXCEPT !.currentObject = <<[cur[1] EXCEPT ![f] = v]>>]
        Throw == [st EXCEPT !.threw = TRUE]
    IN  IF st.threw THEN st
        ELSE IF Includes(line, AT_FONT_FACE)
        THEN [st EXCEPT !.fontFaces = IF cur # null THEN Append(@, cur[1]) ELSE @,
                        !.currentObject = <<NewFontFace>>]
        ELSE IF Includes(line, FONT_FAMILY_MARK)
        THEN IF cur = null THEN Throw
             ELSE Set("fontFamily", At(Split(line, <<"'">>), 1))
        ELSE IF Includes(line, FONT_STYLE_MARK)
        THEN IF cur = null THEN Throw
             ELSE Set("fontStyle", Trim(At(Split(line, <<":">>), 1)))
        ELSE IF Includes(line, FONT_WEIGHT_MARK)
        THEN IF cur = null THEN Throw
             ELSE Set("fontWeight", Trim(At(Split(line, <<":">>), 1)))
        ELSE IF Includes(line, SRC_MARK)
        THEN IF cur = null \/ At(Split(line, URL_OPEN), 1) = undefined THEN Throw
             ELSE Set("srcUrl", At(Split(At(Split(line, URL_OPEN), 1), <<")">>), 0))
        ELSE st

RECURSIVE ParseLines(_, _, _)
ParseLines(st, lines, i) ==
    IF i > Len(lines) THEN st ELSE ParseLines(ParseLine(st, lines[i]), lines, i + 1)

\* The parser without the push after the loop (lines 101-103 left out).
ParseFontFacesNoFlush(text) == ParseLines(ParseStart, Split(text, <<"\n">>), 1)

\* Lines 55-103: split the text into lines, run the loop, and push the
\* object that is still open at the end of the input.
ParseFontFaces(text) ==
    LET st == ParseLines(ParseStart, Split(text, <<"\n">>), 1)
    IN  IF st.threw THEN st
        ELSE [st EXCEPT !.fontFaces = IF st.currentObject # null
                                      THEN Append(@, st.currentObject[1]) ELSE @]

(***************************************************************************)
(* The file name and the rewritten stylesheet.                             *)
(***************************************************************************)
\* The extension both functions take: the piece after the first dot of the
\* URL's last segment, undefined when that segment has no dot.
FontFileExtension(fontFace) ==
    LET fontFaceSrcSplit == Split(fontFace.srcUrl, <<"/">>)
    IN  At(Split(fontFaceSrcSplit[Len(fontFaceSrcSplit)], <<".">>), 1)

\* getFontFaceFileName; it calls fontFamily.replace, a TypeError when the
\* family is undefined (see Builds).
getFontFaceFileName(fontFace) ==
    RemoveAll(RemoveAll(fontFace.fontFamily, " ") \o <<"-">> \o fontFace.fontStyle
              \o <<"-">> \o fontFace.fontWeight \o <<".">>
              \o Interpolate(FontFileExtension(fontFace)), ";")

\* The path the rewritten rule of a font face points at.
LocalFontPath(fontFace) ==
    T_local_fonts \o Interpolate(fontFace.fontFamily) \o <<"/">> \o getFontFaceFileName(fontFace)

\* The rule line 171 appends for one font face.
FontFaceRule(fontFace) ==
    T_rule_family \o Interpolate(fontFace.fontFamily) \o T_rule_style \o fontFace.fontStyle
    \o T_rule_weight \o fontFace.fontWeight \o T_rule_src \o LocalFontPath(fontFace)
    \o T_rule_format \o Interpolate(FontFileExtension(fontFace)) \o T_rule_end

\* csso's minify, as far as the rules' text goes: line breaks go, and so do
\* the blanks after a colon, semicolon or brace and before a brace, an empty
\* declaration's semicolon and the semicolon before the closing brace.
minify(s) ==
    LET n == Len(s)
        Dropped(k) ==
            \/ s[k] = "\n"
            \/ s[k] = " " /\ k < n /\ s[k + 1] = "{"
            \/ s[k] = " " /\ k > 1 /\ s[k - 1] \in {":", ";", "{"}
            \/ s[k] = ";" /\ k < n /\ s[k + 1] \in {";", "}"}
        kept == SelectSeq([k \in 1..n |-> k], LAMBDA k : ~Dropped(k))
    IN  [j \in 1..Len(kept) |-> s[kept[j]]]

\* Whether buildFontFaceCSS returns: getFontFaceFileName throws a TypeError
\* on a font face whose family is undefined.
Builds(fontFaces) == \A k \in 1..Len(fontFaces) : fontFaces[k].fontFamily # undefined

RECURSIVE ConcatRules(_, _)
ConcatRules(fontFaces, i) ==
    IF i > Len(fontFaces) THEN <<>>
    ELSE FontFaceRule(fontFaces[i]) \o ConcatRules(fontFaces, i + 1)

\* buildFontFaceCSS: one rule per font face, in order, minified.
buildFontFaceCSS(fontFaces) == minify(ConcatRules(fontFaces, 1))

(***************************************************************************)
(* The inputs: what the upstream URL serves.                               *)
(***************************************************************************)
\* A block in the layout the font provider serves: the opener on a line of
\* its own and one declaration per line.
Block(family, style, weight, url) ==
    [kind |-> "block", family |-> family, style |-> style, weight |-> weight, url |-> url]

InterA == Block(V_Inter, V_normal, V_400, U_inter)
\* The same family, style and weight as InterA from another URL (as for
\* another unicode range).
InterB == Block(V_Inter, V_normal, V_400, U_inter_b)
LatoItalic == Block(V_Lato, V_italic, V_700, U_lato)

\* The other chunks: a comment line, a whole block on one line, a
\* font-family declaration outside any block, a block with no src line and a
\* block whose src line holds no url(.
Other(kind) ==
    [kind |-> kind, family |-> V_Inter, style |-> V_normal, weight |-> V_400, url |-> <<>>]

Chunks ==
    {InterA, InterB, LatoItalic, Other("comment"), Other("oneline"), Other("stray"),
     Other("nosrc"), Other("srclocal")}

\* The text of one chunk.
RenderChunk(c) ==
    LET decls == R_family \o c.family \o R_family_end
                 \o R_style \o c.style \o R_decl_end
                 \o R_weight \o c.weight \o R_decl_end
    IN  CASE c.kind = "block" ->
                R_open \o decls \o R_src \o c.url \o R_src_end \o R_range \o R_close
          [] c.kind = "comment" -> R_comment
          [] c.kind = "oneline" -> ONE_LINE_BLOCK \o <<"\n">>
          [] c.kind = "stray" -> R_stray
          [] c.kind = "nosrc" -> R_open \o decls \o R_close
          [] c.kind = "srclocal" -> R_open \o decls \o R_src_local \o R_close

RECURSIVE Render(_)
Render(sheet) == IF sheet = <<>> THEN <<>> ELSE RenderChunk(sheet[1]) \o Render(Tail(sheet))

\* The stylesheets the upstream may serve: up to MaxChunks chunks.
Sheets == UNION {[1..n -> Chunks] : n \in 0..MaxChunks}

(***************************************************************************)
(* The file system and the request's paths.                                *)
(***************************************************************************)
\* tmpDir, relative to the working directory.
tmpDir == STR_tmp

\* The names generateOutputPath and createZipArchive draw (a fresh uuid and
\* the time): one request, so one of each.
RequestId == <<"r", "1">>
ZipId == <<"z", "1">>

\* generateOutputPath.
generateOutputPath == PathJoin(tmpDir, <<RequestId>>)

\* Whether path p is d or lies below d.
Under(p, d) ==
    p = d \/ (Len(p) > Len(d) /\ SubSeq(p, 1, Len(d)) = d /\ p[Len(d) + 1] = "/")

VARIABLES
    pc,          \* where the request is: idle, fetching, parsing, downloading,
                 \* archiving, resolved, sending, done, rejected, crashed
    dirs,        \* the directories on disk
    files,       \* the files on disk: path -> content
    sheet,       \* what the upstream served, as chunks
    body,        \* the text of the upstream's response
    fontFaces,   \* the parsed font faces
    css,         \* the rewritten stylesheet built from them
    i,           \* the index of the download loop
    attempts,    \* the downloads issued so far, each with its outcome
    archivePath, \* what getDataFromUrl resolved to: null or <<path>>
    response,    \* what the handler answered: none, redirect, download
    delivery,    \* res.download's callback: pending, ok, err
    failure      \* what rejected or crashed the request: none, fetch, parse,
                 \* build, request-error

vars ==
    <<pc, dirs, files, sheet, body, fontFaces, css, i, attempts, archivePath, response,
      delivery, failure>>

outputPath == generateOutputPath

Init ==
    /\ pc = "idle"
    /\ dirs \in {{}, {tmpDir}}
    /\ files = <<>>
    /\ sheet = <<>>
    /\ body = <<>>
    /\ fontFaces = <<>>
    /\ css = <<>>
    /\ i = 0
    /\ attempts = <<>>
    /\ archivePath = null
    /\ response = "none"
    /\ delivery = "pending"
    /\ failure = "none"

(***************************************************************************)
(* The request: app.get("/download") and getDataFromUrl.                   *)
(***************************************************************************)
\* Lines 19-20 of the handler and 29-39 of getDataFromUrl: the directories
\* are made and the fetch is issued.
Request ==
    /\ pc = "idle"
    /\ dirs' = dirs \cup {tmpDir, outputPath}
    /\ pc' = "fetching"
    /\ UNCHANGED <<files, sheet, body, fontFaces, css, i, attempts, archivePath, response,
                   delivery, failure>>

\* fetch rejects (an unparsable URL, a refused connection, a network error):
\* getDataFromUrl rejects, then's callback is not called, the await in the
\* handler throws, and nothing catches the handler's rejected promise.
FetchRejected ==
    /\ pc = "fetching"
    /\ pc' = "rejected"
    /\ failure' = "fetch"
    /\ UNCHANGED <<dirs, files, sheet, body, fontFaces, css, i, attempts, archivePath,
                   response, delivery>>

\* fetch resolves and response.text() yields the body, whatever the status.
FetchResolved ==
    /\ pc = "fetching"
    /\ \E sh \in Sheets :
          /\ sheet' = sh
          /\ body' = Render(sh)
    /\ pc' = "parsing"
    /\ UNCHANGED <<dirs, files, fontFaces, css, i, attempts, archivePath, response,
                   delivery, failure>>

\* Lines 55-109 of parseAndDownloadFonts: parse, then build the stylesheet.
\* A TypeError in either rejects getDataFromUrl, as in FetchRejected.
ParseAndBuild ==
    /\ pc = "parsing"
    /\ LET st == ParseFontFaces(body)
       IN  IF st.threw
           THEN /\ pc' = "rejected"
                /\ failure' = "parse"
                /\ UNCHANGED <<fontFaces, css>>
           ELSE IF ~Builds(st.fontFaces)
           THEN /\ pc' = "rejected"
                /\ failure' = "build"
                /\ fontFaces' = st.fontFaces
                /\ UNCHANGED css
           ELSE /\ pc' = "downloading"
                /\ fontFaces' = st.fontFaces
                /\ css' = buildFontFaceCSS(st.fontFaces)
                /\ UNCHANGED failure
    /\ UNCHANGED <<dirs, files, sheet, body, i, attempts, archivePath, response, delivery>>

(***************************************************************************)
(* The font fetcher: the download loop, the export and the archive.        *)
(***************************************************************************)
\* The string https://
HTTPS_SCHEME == <<"h", "t", "t", "p", "s", ":", "/", "/">>

\* Whether https.get accepts the URL: it throws synchronously on a string
\* that is no URL (the empty string of a block without src) and on another
\* protocol than https.
IsHttpsUrl(url) ==
    Len(url) > Len(HTTPS_SCHEME) /\ SubSeq(url, 1, Len(HTTPS_SCHEME)) = HTTPS_SCHEME

\* How download(url, path) can end.
\*   invalid-url:   https.get throws inside the promise's executor, the
\*                  promise rejects;
\*   finish:        the response is piped to the file, the promise resolves;
\*   writer-error:  the write stream fails to open the file and emits error,
\*                  the promise rejects;
\*   request-error: the request emits error (refused connection, DNS or TLS
\*                  failure). download attaches no error listener to the
\*                  request, so the event is thrown as an uncaught exception
\*                  and the promise never settles.
DownloadOutcomes(url) ==
    IF IsHttpsUrl(url) THEN {"finish", "writer-error", "request-error"} ELSE {"invalid-url"}

\* The destination of a font face's file (line 116).
FontFilePath(fontFace) ==
    PathJoin(outputPath, <<STR_fonts, fontFace.fontFamily, getFontFaceFileName(fontFace)>>)

\* The file system after download(url, path) ended with outcome.
FilesAfterDownload(fs, url, path, outcome) ==
    IF outcome = "finish"
    THEN [q \in DOMAIN fs \cup {path} |->
             IF q = path THEN [kind |-> "font", from |-> url] ELSE fs[q]]
    ELSE fs

\* One iteration of the loop of lines 112-129: the family directory is
\* made, the download is issued and awaited; a rejection is caught and
\* logged and the loop goes on.
DownloadFont ==
    /\ pc = "downloading"
    /\ i < Len(fontFaces)
    /\ LET fontFace == fontFaces[i + 1]
           fontFilePath == FontFilePath(fontFace)
       IN  /\ dirs' = dirs \cup {PathJoin(outputPath, <<STR_fonts>>),
                                 PathJoin(outputPath, <<STR_fonts, fontFace.fontFamily>>)}
           /\ \E outcome \in DownloadOutcomes(fontFace.srcUrl) :
                 /\ attempts' = Append(attempts, [index |-> i, url |-> fontFace.srcUrl,
                                                  path |-> fontFilePath, outcome |-> outcome])
                 /\ files' = FilesAfterDownload(files, fontFace.srcUrl, fontFilePath, outcome)
                 /\ IF outcome = "request-error"
                    THEN /\ pc' = "crashed"
                         /\ failure' = "request-error"
                         /\ UNCHANGED i
                    ELSE /\ i' = i + 1
                         /\ UNCHANGED <<pc, failure>>
    /\ UNCHANGED <<sheet, body, fontFaces, css, archivePath, response, delivery>>

\* The path of the exported stylesheet (line 140).
CssFilePath == PathJoin(outputPath, <<STR_css, STR_fonts_min_css>>)

\* The export, had the stylesheet been built after the downloads from the
\* font faces whose file arrived.
ExportCssOfDownloaded ==
    /\ pc = "downloading"
    /\ i = Len(fontFaces)
    /\ dirs' = dirs \cup {PathJoin(outputPath, <<STR_css>>)}
    /\ LET arrived == {attempts[k].index + 1 :
                          k \in {j \in 1..Len(attempts) : attempts[j].outcome = "finish"}}
           text == buildFontFaceCSS(SelectSeq(fontFaces,
                       LAMBDA f : \E k \in arrived : fontFaces[k] = f))
       IN  files' = [q \in DOMAIN files \cup {CssFilePath} |->
                        IF q = CssFilePath THEN [kind |-> "css", text |-> text] ELSE files[q]]
    /\ pc' = "archiving"
    /\ UNCHANGED <<sheet, body, fontFaces, css, i, attempts, archivePath, response, delivery,
                   failure>>

\* Lines 131-140, after the loop: the css directory is made and the
\* stylesheet built before the downloads is written.
ExportCss ==
    /\ pc = "downloading"
    /\ i = Len(fontFaces)
    /\ dirs' = dirs \cup {PathJoin(outputPath, <<STR_css>>)}
    /\ files' = [q \in DOMAIN files \cup {CssFilePath} |->
                    IF q = CssFilePath THEN [kind |-> "css", text |-> css] ELSE files[q]]
    /\ pc' = "archiving"
    /\ UNCHANGED <<sheet, body, fontFaces, css, i, attempts, archivePath, response, delivery,
                   failure>>

\* The path createZipArchive writes (line 235).
ZipFilePath == PathJoin(tmpDir, <<ZipId \o STR_zip>>)

\* What getDataFromUrl resolves to: createZipArchive returns the path of
\* the archive it wrote, for every directory.
ResolvedValue(filePath) == <<filePath>>

\* createZipArchive, and getDataFromUrl's return of its result: the tree
\* under the directory is archived to a new file in tmpDir.
createZipArchive ==
    /\ pc = "archiving"
    /\ files' = [q \in DOMAIN files \cup {ZipFilePath} |->
                    IF q = ZipFilePath
                    THEN [kind |-> "zip",
                          entries |-> {e \in DOMAIN files : Under(e, outputPath)}]
                    ELSE files[q]]
    /\ archivePath' = ResolvedValue(ZipFilePath)
    /\ pc' = "resolved"
    /\ UNCHANGED <<dirs, sheet, body, fontFaces, css, i, attempts, response, delivery, failure>>

\* The callback given to then (lines 21-32): a redirect when the archive
\* path is null, else status 200 and res.download.
ThenCallback ==
    /\ pc = "resolved"
    /\ IF archivePath = null
       THEN /\ response' = "redirect"
            /\ pc' = "done"
       ELSE /\ response' = "download"
            /\ pc' = "sending"
    /\ UNCHANGED <<dirs, files, sheet, body, fontFaces, css, i, attempts, archivePath,
                   delivery, failure>>

\* cleanup: the directory and all below it removed, then the archive.
DirsAfterCleanup(ds, archive, directory) == {d \in ds : ~Under(d, directory)}

\* cleanup without the unlink of the archive (line 279 left out).
FilesAfterCleanupKeepsArchive(fs, archive, directory) ==
    [q \in {f \in DOMAIN fs : ~Under(f, directory)} |-> fs[q]]

FilesAfterCleanup(fs, archive, directory) ==
    [q \in {f \in DOMAIN fs : ~Under(f, directory) /\ f # archive} |-> fs[q]]

\* The callback of res.download (lines 26-31): the error, if any, is
\* logged, and cleanup runs either way.
DownloadCallback ==
    /\ pc = "sending"
    /\ \E err \in BOOLEAN : delivery' = IF err THEN "err" ELSE "ok"
    /\ dirs' = DirsAfterCleanup(dirs, archivePath[1], outputPath)
    /\ files' = FilesAfterCleanup(files, archivePath[1], outputPath)
    /\ pc' = "done"
    /\ UNCHANGED <<sheet, body, fontFaces, css, i, attempts, archivePath, response, failure>>

Next ==
    \/ Request
    \/ FetchRejected
    \/ FetchResolved
    \/ ParseAndBuild
    \/ DownloadFont
    \/ ExportCss
    \/ createZipArchive
    \/ ThenCallback
    \/ DownloadCallback

Spec == Init /\ [][Next]_vars

(***************************************************************************)
(* The properties.                                                         *)
(***************************************************************************)
\* The request is past the parser and the stylesheet builder.
Parsed == pc \in {"downloading", "archiving", "resolved", "sending", "done", "crashed"}

\* The fetcher has returned: the loop is over and the stylesheet written.
FetcherReturned == pc \in {"archiving", "resolved", "sending"}

\* The downloads among the attempts that ended with outcome o.
AttemptsWith(o) == {k \in 1..Len(attempts) : attempts[k].outcome = o}

FailedAttempts == {k \in 1..Len(attempts) : attempts[k].outcome # "finish"}

\* The font files on disk.
FontFiles == {f \in DOMAIN files : files[f].kind = "font"}

\* The number of @font-face rules in a stylesheet text.
RuleCount(text) == Len(Split(text, AT_FONT_FACE)) - 1

\* C1: a request whose fetched stylesheet yields zero font faces takes the
\* "no fonts found" path: no archive is produced or sent, and the request
\* ends with the redirect.
C1_NoFontFacesNoArchive ==
    (Parsed /\ fontFaces = <<>>) =>
        /\ archivePath = null
        /\ ZipFilePath \notin DOMAIN files
        /\ response # "download"
        /\ (pc = "done" => response = "redirect")

\* C2: a request whose upstream fetch fails answers with the redirect, and
\* the failure does not leave the handler as a rejected promise.
C2_FetchFailureRedirects ==
    failure = "fetch" => (pc # "rejected" /\ response = "redirect")

\* C3: after a request that ended with the archive streamed to the caller,
\* neither the request's directory tree nor its archive is on disk.
C3_SuccessLeavesNothing ==
    (pc = "done" /\ delivery = "ok") =>
        /\ \A d \in dirs : ~Under(d, outputPath)
        /\ \A f \in DOMAIN files : ~Under(f, outputPath) /\ f # archivePath[1]

\* C3's case: the archive of a tree with a downloaded font in it was
\* streamed and the callback has run.
C3_Witness ==
    /\ pc = "done"
    /\ delivery = "ok"
    /\ response = "download"
    /\ AttemptsWith("finish") # {}

\* C4: no request that has ended, on whatever path, leaves the directory it
\* made at its start on disk.
C4_EveryPathDeletesDirectory ==
    pc \in {"done", "rejected", "crashed"} => outputPath \notin dirs

\* The stylesheet is in the provider's layout: nothing but blocks with the
\* opener and each declaration on a line of their own, and comment lines.
WellFormedSheet(sh) == \A k \in 1..Len(sh) : sh[k].kind \in {"block", "comment"}

\* What the blocks of a sheet declare, in source order: the family between
\* the quotes, the URL between the parentheses, and for style and weight
\* the text after the colon, which takes in the declaration's semicolon.
ExpectedFontFaces(sh) ==
    LET blocks == SelectSeq(sh, LAMBDA c : c.kind = "block")
    IN  [k \in 1..Len(blocks) |->
            [fontFamily |-> blocks[k].family,
             fontStyle |-> blocks[k].style \o <<";">>,
             fontWeight |-> blocks[k].weight \o <<";">>,
             srcUrl |-> blocks[k].url]]

\* C5: for a stylesheet of N well-formed blocks (N >= 0) the parser does
\* not throw and yields exactly N font faces, the k-th holding the fields
\* of the k-th block, the last block included.
C5_OneFontFacePerBlock ==
    (WellFormedSheet(sheet) /\ pc \notin {"idle", "fetching", "parsing"} /\ failure # "fetch") =>
        /\ failure \notin {"parse", "build"}
        /\ fontFaces = ExpectedFontFaces(sheet)

\* C5's case: two different well-formed blocks have been parsed.
C5_Witness ==
    /\ pc = "downloading"
    /\ WellFormedSheet(sheet)
    /\ Len(sheet) = 2
    /\ Len(fontFaces) = 2
    /\ fontFaces[1].fontFamily # fontFaces[2].fontFamily

\* C6: the stylesheet of one block written on one line yields one font face
\* with family Inter, style normal, weight 400 and the block's URL, the file
\* name Inter-normal-400.woff2 and a rule pointing at
\* ../fonts/Inter/Inter-normal-400.woff2.
C6_OneLineBlock ==
    (sheet = <<Other("oneline")>> /\ pc \notin {"idle", "fetching", "parsing"}) =>
        /\ fontFaces = <<[fontFamily |-> V_Inter, fontStyle |-> V_normal,
                          fontWeight |-> V_400, srcUrl |-> U_inter]>>
        /\ getFontFaceFileName(fontFaces[1]) = N_Inter_normal_400_woff2
        /\ Includes(css, P_local_Inter)

\* C7: a failed download of one font face does not abort the batch: the
\* process goes on, every later font face is attempted, and the fetcher
\* returns after all of them.
C7_FailedDownloadDoesNotAbort ==
    FailedAttempts # {} =>
        /\ pc # "crashed"
        /\ (FetcherReturned => Len(attempts) = Len(fontFaces))

\* C8: whatever the downloads' outcomes, the stylesheet built, and the one
\* exported, hold exactly one @font-face rule per parsed font face.
C8_OneRulePerFontFace ==
    Parsed =>
        /\ RuleCount(css) = Len(fontFaces)
        /\ (CssFilePath \in DOMAIN files =>
               RuleCount(files[CssFilePath].text) = Len(fontFaces))

\* C8's case: the stylesheet of two font faces is exported after a download
\* failed.
C8_Witness ==
    /\ pc = "archiving"
    /\ CssFilePath \in DOMAIN files
    /\ Len(fontFaces) = 2
    /\ FailedAttempts # {}

\* C9: the parser fails on no input.
C9_ParserNeverFails == failure # "parse"

\* C10: when the fetcher has returned, the output tree holds one font file
\* per distinct font face whose download succeeded.
C10_OneFilePerDownloadedFontFace ==
    FetcherReturned =>
        Cardinality(FontFiles)
            = Cardinality({fontFaces[attempts[k].index + 1] : k \in AttemptsWith("finish")})

====
